---- MODULE Spec2Model ----
(***************************************************************************)
(* Quicksort / quickselect with median of medians (quicksort_mm).          *)
(*                                                                         *)
(* Three variants of one algorithm are modelled, each from its own file:   *)
(*   "c"  : src/src/c/quicksort_mm.c   (byte-wise, three-way comparator)   *)
(*   "cc" : src/src/cc/quicksort_mm.hh (iterators, less-than comparator)   *)
(*   "hh" : src/src/quicksort_mm.hh    (iterators, operator<)              *)
(*                                                                         *)
(* A sequence element is a pair <<key, id>>: the ordering looks at the key *)
(* only, the id tells elements of equal key apart.  Positions are offsets  *)
(* from the start of the caller's array: bytes in the C variant (element   *)
(* index times sz), elements in the iterator variants.                      *)
(***************************************************************************)
EXTENDS Integers, Sequences, FiniteSets, TLC

VARIABLES
    variant,    \* which of the three source files is being run
    api,        \* the entry point called: "none" until the call is made
    phase,      \* "idle" (before the call), "running", "done" (call returned)
    arr,        \* the caller's sequence
    orig,       \* the sequence as it was passed to the current call
    sz,         \* element size in bytes (1 position = 1 element for iterators)
    stack,      \* quicksort frames, innermost last
    started,    \* routines entered since the current call was made
    round,      \* number of sort calls made on this sequence
    first_out,  \* the sequence as the first sort call left it
    args,       \* arguments of the call besides the sequence
    ret,        \* the position the last routine called returned (-1: none)
    ok          \* no assertion of the C variant has failed

vars == <<variant, api, phase, arr, orig, sz, stack, started, round, first_out, args, ret, ok>>

(***************************************************************************)
(* Bounds of the model.                                                    *)
(***************************************************************************)
MaxLen == 5     \* every sequence of at most MaxLen elements is an input
MaxKey == 2     \* with keys drawn from 0..MaxKey

(***************************************************************************)
(* Elements and the caller's ordering.                                     *)
(***************************************************************************)
Key(e) == e[1]

\* three-way comparator of the C variant
cmp(x, y) == IF Key(x) < Key(y) THEN -1 ELSE IF Key(x) > Key(y) THEN 1 ELSE 0

\* less-than comparator of the comparator variant
less(x, y) == Key(x) < Key(y)

\* operator<, operator>, operator<=, operator>= of the value type
lt(x, y) == Key(x) < Key(y)
gt(x, y) == Key(x) > Key(y)
le(x, y) == Key(x) <= Key(y)
ge(x, y) == Key(x) >= Key(y)

\* the element at position p, for elements of size esz
At(a, p, esz) == a[(p \div esz) + 1]

Min(x, y) == IF x < y THEN x ELSE y
Max(x, y) == IF x > y THEN x ELSE y

(***************************************************************************)
(* C variant: utilities.                                                   *)
(***************************************************************************)
\* swap: exchanges the esz bytes at p with the esz bytes at q
c_swap(a, p, q, esz) ==
    [a EXCEPT ![(p \div esz) + 1] = a[(q \div esz) + 1],
              ![(q \div esz) + 1] = a[(p \div esz) + 1]]

\* c_swap_unless_same with a fault seeded: nothing is exchanged
c_swap_unless_same_never(a, p, q, esz) == a

c_swap_unless_same(a, p, q, esz) == IF p # q THEN c_swap(a, p, q, esz) ELSE a

\* median5: the swap_ptr calls rename the five pointers, the array is not written
c_median5(m, a, b, c, d, e, esz) ==
    LET gtp(x, y) == cmp(At(m, x, esz), At(m, y, esz)) > 0
        s1 == gtp(a, b)
        a1 == IF s1 THEN b ELSE a
        b1 == IF s1 THEN a ELSE b
        s2 == gtp(c, d)
        c1 == IF s2 THEN d ELSE c
        d1 == IF s2 THEN c ELSE d
        s3 == gtp(a1, c1)
        a2 == IF s3 THEN c1 ELSE a1
        c2 == IF s3 THEN a1 ELSE c1
        b2 == IF s3 THEN d1 ELSE b1
        d2 == IF s3 THEN b1 ELSE d1
        s4 == gtp(b2, e)
        b3 == IF s4 THEN e ELSE b2
        e3 == IF s4 THEN b2 ELSE e
    IN  IF gtp(b3, c2)
        THEN (IF gtp(b3, d2) THEN d2 ELSE b3)
        ELSE (IF gtp(c2, e3) THEN e3 ELSE c2)

\* c_median3 with a fault seeded: the first position is returned
c_median3_first(m, p, q, r, esz) == p

c_median3(m, p, q, r, esz) ==
    LET ltp(x, y) == cmp(At(m, x, esz), At(m, y, esz)) < 0
    IN  IF ltp(p, q)
        THEN (IF ltp(q, r) THEN q ELSE (IF ltp(p, r) THEN r ELSE p))
        ELSE (IF ltp(p, r) THEN p ELSE (IF ltp(q, r) THEN r ELSE q))

\* the loop of approx_sqrt: the value of base when n has reached 0
RECURSIVE approx_sqrt_base(_, _)
approx_sqrt_base(n, base) ==
    IF 0 < n THEN approx_sqrt_base(n \div 4, base + 1) ELSE base

\* approx_sqrt returns 1 << base.  For n = 0 base is -1 and the shift is
\* undefined: the result is then whatever the build produces (a few values
\* stand for all of them; the sign bit of a 32-bit int is out of TLC's range).
ShiftUndefined == {0, 1, 2 ^ 20}
approx_sqrt(n) ==
    LET base == approx_sqrt_base(n, -1)
    IN  IF base < 0 THEN ShiftUndefined ELSE {2 ^ base}

\* c_partition_step with a fault seeded: the scans pass over elements equal to the pivot
c_partition_step_no_tie_stop(s, pivot, esz) ==
    IF s.at = "hi" THEN
        LET hi == s.hi - esz IN
        IF s.lo >= hi THEN [s EXCEPT !.hi = hi, !.at = "end"]
        ELSE LET cmp_hi == cmp(At(s.a, hi, esz), At(s.a, pivot, esz)) IN
             IF cmp_hi < 0
             THEN [s EXCEPT !.hi = hi, !.cmp_hi = cmp_hi, !.at = "lo"]
             ELSE [s EXCEPT !.hi = hi]
    ELSE IF s.at = "lo" THEN
        LET lo == s.lo + esz IN
        IF lo >= s.hi THEN [s EXCEPT !.lo = lo, !.at = "end"]
        ELSE LET cmp_lo == cmp(At(s.a, lo, esz), At(s.a, pivot, esz)) IN
             IF cmp_lo > 0
             THEN [s EXCEPT !.lo = lo, !.at = "hi",
                            !.a = IF cmp_lo # 0 \/ s.cmp_hi # 0
                                  THEN c_swap(s.a, lo, s.hi, esz) ELSE s.a]
             ELSE [s EXCEPT !.lo = lo]
    ELSE s

(***************************************************************************)
(* C variant: Hoare's partition.  The two scans are run one pointer move   *)
(* at a time by c_partition_step on the loop state                          *)
(*   [a, lo, hi, cmp_hi, at]   at: "hi" (first inner loop), "lo" (second), *)
(*                                 "end" (PARTITION_END reached).          *)
(* c_partition_run applies k moves (a move at "end" changes nothing).      *)
(***************************************************************************)
c_partition_step(s, pivot, esz) ==
    IF s.at = "hi" THEN
        LET hi == s.hi - esz IN
        IF s.lo >= hi THEN [s EXCEPT !.hi = hi, !.at = "end"]
        ELSE LET cmp_hi == cmp(At(s.a, hi, esz), At(s.a, pivot, esz)) IN
             IF cmp_hi <= 0
             THEN [s EXCEPT !.hi = hi, !.cmp_hi = cmp_hi, !.at = "lo"]
             ELSE [s EXCEPT !.hi = hi]
    ELSE IF s.at = "lo" THEN
        LET lo == s.lo + esz IN
        IF lo >= s.hi THEN [s EXCEPT !.lo = lo, !.at = "end"]
        ELSE LET cmp_lo == cmp(At(s.a, lo, esz), At(s.a, pivot, esz)) IN
             IF cmp_lo >= 0
             THEN [s EXCEPT !.lo = lo, !.at = "hi",
                            !.a = IF cmp_lo # 0 \/ s.cmp_hi # 0
                                  THEN c_swap(s.a, lo, s.hi, esz) ELSE s.a]
             ELSE [s EXCEPT !.lo = lo]
    ELSE s

RECURSIVE c_partition_run(_, _, _, _)
c_partition_run(s, pivot, esz, k) ==
    IF k = 0 THEN s
    ELSE IF k = 1 THEN c_partition_step(s, pivot, esz)
    ELSE LET half == c_partition_run(s, pivot, esz, k \div 2)
         IN  IF half.at = "end" THEN half
             ELSE c_partition_run(half, pivot, esz, k - (k \div 2))

\* c_partition_end with a fault seeded: the pivot is left at the start of the range
c_partition_end_pivot_left(s, begin, esz) ==
    [a |-> s.a, pos |-> s.lo, ended |-> s.at = "end", ok |-> s.lo - begin >= 0]

\* PARTITION_END: the pivot goes to lo, which is returned
c_partition_end(s, begin, esz) ==
    [a |-> c_swap(s.a, begin, s.lo, esz), pos |-> s.lo, ended |-> s.at = "end",
     ok |-> s.lo - begin >= 0]

\* partition(begin, pivot, n, sz, cmp): the array after it, and the returned lo
c_partition(a, begin, pivot, n, esz) ==
    c_partition_end(
        c_partition_run(
            [a |-> c_swap_unless_same(a, pivot, begin, esz),
             lo |-> begin, hi |-> begin + esz * n, cmp_hi |-> 0, at |-> "hi"],
            begin, esz, n),
        begin, esz)

(***************************************************************************)
(* C variant: median of medians.  Every routine returns the array as it    *)
(* leaves it, the pointer it returns, and ok: no assertion failed in it.   *)
(***************************************************************************)
RECURSIVE c_rs3_5_2_pick_pivot(_, _, _, _, _)
RECURSIVE c_rs3_5_2_find_kth(_, _, _, _, _, _)

\* c_pick_pivot_body with a fault seeded: the median of the group is not deposited
c_pick_pivot_body_no_deposit(a, p0, q0, r0, i, esz) == a

\* iteration i of the for loop of rs3_5_2_pick_pivot
c_pick_pivot_body(a, p0, q0, r0, i, esz) ==
        LET s0 == c_median3(a, p0 + (i*7+0)*esz, p0 + (i*7+1)*esz, p0 + (i*7+2)*esz, esz)
            s1 == c_median3(a, p0 + (i*7+3)*esz, p0 + (i*7+4)*esz, p0 + (i*7+5)*esz, esz)
            s2 == c_median3(a, p0 + (i*7+6)*esz, q0 + (i*1+0)*esz, r0 + (i*7+0)*esz, esz)
            s3 == c_median3(a, r0 + (i*7+1)*esz, r0 + (i*7+2)*esz, r0 + (i*7+3)*esz, esz)
            s4 == c_median3(a, r0 + (i*7+4)*esz, r0 + (i*7+5)*esz, r0 + (i*7+6)*esz, esz)
        IN  c_swap_unless_same(a, q0 + i*esz, c_median5(a, s0, s1, s2, s3, s4, esz), esz)

\* the for loop of rs3_5_2_pick_pivot: its iterations i .. nnext-1, in order
\* (run by halves, each half evaluated before the next is started)
RECURSIVE c_pick_pivot_loop(_, _, _, _, _, _, _)
c_pick_pivot_loop(a, p0, q0, r0, nnext, i, esz) ==
    IF i >= nnext THEN a
    ELSE IF i + 1 = nnext THEN c_pick_pivot_body(a, p0, q0, r0, i, esz)
    ELSE LET mid == i + (nnext - i) \div 2
             half == c_pick_pivot_loop(a, p0, q0, r0, mid, i, esz)
         IN  IF Len(half) = 0 THEN half
             ELSE c_pick_pivot_loop(half, p0, q0, r0, nnext, mid, esz)

c_rs3_5_2_pick_pivot(a, p, n, esz, thin0) ==
    LET thin == IF thin0 < 2 THEN 2 ELSE thin0 IN
    IF n < 15 THEN [a |-> a, pos |-> p + (n \div 2)*esz, ok |-> TRUE]
    ELSE IF n < 80 THEN
        [a |-> a, pos |-> c_median3(a, p, p + (n \div 2)*esz, p + (n-1)*esz, esz), ok |-> TRUE]
    ELSE IF n < 30*thin \/ n < 200 THEN
        [a |-> a, ok |-> TRUE,
         pos |-> c_median5(a, p, p + (n \div 4)*esz, p + (n \div 2)*esz,
                           p + ((3*n) \div 4)*esz, p + (n-1)*esz, esz)]
    ELSE
        LET nnext == n \div (15*thin)
            p0 == p
            q0 == p + 7*(n \div 15)*esz
            r0 == p + (n - nnext*7)*esz
            a1 == c_pick_pivot_loop(a, p0, q0, r0, nnext, 0, esz)
        IN  c_rs3_5_2_find_kth(a1, q0, nnext, esz, 2, nnext \div 2)

\* c_find_kth_recurse with a fault seeded: the position of the pivot is returned at once
c_find_kth_recurse_never(pt, p, n, esz, kth) == [a |-> pt.a, pos |-> pt.pos, ok |-> pt.ok]

\* rs3_5_2_find_kth after its call of partition, which returned pt
c_find_kth_recurse(pt, p, n, esz, kth) ==
    LET pivotx == pt.pos
        nl == (pivotx - p) \div esz
        nr == n - nl - 1
    IN  IF ~(pt.ok /\ (pivotx - p) % esz = 0 /\ (pivotx - p) \div esz < n /\ pivotx >= p
              /\ n >= nl + 1)
        THEN [a |-> pt.a, pos |-> pivotx, ok |-> FALSE]
        ELSE IF nl < kth THEN c_rs3_5_2_find_kth(pt.a, pivotx + esz, nr, esz, 2, kth - nl - 1)
        ELSE IF kth < nl THEN c_rs3_5_2_find_kth(pt.a, p, nl, esz, 2, kth)
        ELSE [a |-> pt.a, pos |-> pivotx, ok |-> TRUE]

\* the call of partition with the pivot pv that rs3_5_2_pick_pivot returned,
\* and the assertions on that pivot
c_partition_at(pv, p, n, esz) ==
    [c_partition(pv.a, p, pv.pos, n, esz) EXCEPT
        !.ok = @ /\ pv.ok /\ p <= pv.pos /\ (pv.pos - p) % esz = 0 /\ (pv.pos - p) \div esz < n]

c_rs3_5_2_find_kth(a, p, n, esz, thin, kth) ==
    IF ~(kth < n) THEN [a |-> a, pos |-> p, ok |-> FALSE]
    ELSE IF n = 1 THEN [a |-> a, pos |-> p, ok |-> TRUE]
    ELSE IF n = 2 THEN
        [a |-> IF cmp(At(a, p, esz), At(a, p + esz, esz)) > 0
               THEN c_swap(a, p, p + esz, esz) ELSE a,
         pos |-> p + kth*esz, ok |-> TRUE]
    ELSE c_find_kth_recurse(
             c_partition_at(c_rs3_5_2_pick_pivot(a, p, n, esz, thin), p, n, esz),
             p, n, esz, kth)

(***************************************************************************)
(* Comparator variant (cc): iterators are element positions.               *)
(***************************************************************************)
Deref(a, it) == a[it + 1]

\* std::swap(*x, *y)
iter_swap(a, x, y) == [a EXCEPT ![x + 1] = a[y + 1], ![y + 1] = a[x + 1]]

cc_median3(m, a, b, c) ==
    LET lp(x, y) == less(Deref(m, x), Deref(m, y))
    IN  IF lp(a, b)
        THEN (IF lp(b, c) THEN b ELSE (IF lp(a, c) THEN c ELSE a))
        ELSE (IF lp(a, c) THEN a ELSE (IF lp(b, c) THEN c ELSE b))

cc_median5(m, a, b, c, d, e) ==
    LET lp(x, y) == less(Deref(m, x), Deref(m, y))
        s1 == lp(b, a)
        a1 == IF s1 THEN b ELSE a
        b1 == IF s1 THEN a ELSE b
        s2 == lp(d, c)
        c1 == IF s2 THEN d ELSE c
        d1 == IF s2 THEN c ELSE d
        s3 == lp(c1, a1)
        a2 == IF s3 THEN c1 ELSE a1
        c2 == IF s3 THEN a1 ELSE c1
        b2 == IF s3 THEN d1 ELSE b1
        d2 == IF s3 THEN b1 ELSE d1
        s4 == lp(e, b2)
        b3 == IF s4 THEN e ELSE b2
        e3 == IF s4 THEN b2 ELSE e
    IN  IF lp(c2, b3)
        THEN (IF lp(d2, b3) THEN d2 ELSE b3)
        ELSE (IF lp(e3, c2) THEN e3 ELSE c2)

\* the do-while loop of insertion_sort and the store of target after it
RECURSIVE cc_insertion_shift(_, _, _, _)
cc_insertion_shift(a, first, cursor, target) ==
    LET a1 == [a EXCEPT ![cursor + 1] = a[cursor]]
        c1 == cursor - 1
    IN  IF first # c1 /\ less(target, Deref(a1, c1 - 1))
        THEN cc_insertion_shift(a1, first, c1, target)
        ELSE [a1 EXCEPT ![c1 + 1] = target]

\* the for loop of insertion_sort, from current on
RECURSIVE cc_insertion_loop(_, _, _, _)
cc_insertion_loop(a, first, last, current) ==
    IF current # last THEN
        LET a1 == IF less(Deref(a, current), Deref(a, current - 1))
                  THEN cc_insertion_shift(a, first, current, Deref(a, current))
                  ELSE a
        IN  cc_insertion_loop(a1, first, last, current + 1)
    ELSE a

cc_insertion_sort(a, first, last) ==
    IF first = last THEN a ELSE cc_insertion_loop(a, first, last, first + 1)

\* one pointer move of the partition loops, on [a, lo, hi, at]
cc_partition_step(s, pivot) ==
    IF s.at = "hi" THEN
        LET hi == s.hi - 1 IN
        IF s.lo = hi THEN [s EXCEPT !.hi = hi, !.at = "end"]
        ELSE IF ~less(Deref(s.a, pivot), Deref(s.a, hi))
             THEN [s EXCEPT !.hi = hi, !.at = "lo"]
             ELSE [s EXCEPT !.hi = hi]
    ELSE IF s.at = "lo" THEN
        LET lo == s.lo + 1 IN
        IF lo = s.hi THEN [s EXCEPT !.lo = lo, !.at = "end"]
        ELSE IF ~less(Deref(s.a, lo), Deref(s.a, pivot))
             THEN [s EXCEPT !.lo = lo, !.at = "hi", !.a = iter_swap(s.a, lo, s.hi)]
             ELSE [s EXCEPT !.lo = lo]
    ELSE s

RECURSIVE cc_partition_run(_, _, _)
cc_partition_run(s, pivot, k) ==
    IF k = 0 THEN s
    ELSE IF k = 1 THEN cc_partition_step(s, pivot)
    ELSE LET half == cc_partition_run(s, pivot, k \div 2)
         IN  IF half.at = "end" THEN half
             ELSE cc_partition_run(half, pivot, k - (k \div 2))

cc_partition_end(s, first) ==
    [a |-> iter_swap(s.a, first, s.lo), pos |-> s.lo, ended |-> s.at = "end", ok |-> TRUE]

cc_partition(a, first, last, pivot) ==
    cc_partition_end(
        cc_partition_run(
            [a |-> IF first # pivot THEN iter_swap(a, first, pivot) ELSE a,
             lo |-> first, hi |-> last, at |-> "hi"],
            first, last - first),
        first)

\* the call of partition with the pivot pv that the pivot selector returned
cc_partition_at(pv, first, last) == cc_partition(pv.a, first, last, pv.pos)

RECURSIVE cc_rs3_5_2_pick_pivot(_, _, _, _)
RECURSIVE cc_rs3_5_2_find_kth(_, _, _, _, _)

\* iteration i of the for loop
cc_pick_pivot_body(a, p, q, r, i) ==
        LET x0 == cc_median3(a, p+i*7+0, p+i*7+1, p+i*7+2)
            x1 == cc_median3(a, p+i*7+3, p+i*7+4, p+i*7+5)
            x2 == cc_median3(a, p+i*7+6, q+i,     r+i*7+0)
            x3 == cc_median3(a, r+i*7+1, r+i*7+2, r+i*7+3)
            x4 == cc_median3(a, r+i*7+4, r+i*7+5, r+i*7+6)
            xx == cc_median5(a, x0, x1, x2, x3, x4)
        IN  IF xx # q+i THEN iter_swap(a, xx, q+i) ELSE a

\* the for loop: its iterations i .. nnext-1, in order (run by halves)
RECURSIVE cc_pick_pivot_loop(_, _, _, _, _, _)
cc_pick_pivot_loop(a, p, q, r, nnext, i) ==
    IF i >= nnext THEN a
    ELSE IF i + 1 = nnext THEN cc_pick_pivot_body(a, p, q, r, i)
    ELSE LET mid == i + (nnext - i) \div 2
             half == cc_pick_pivot_loop(a, p, q, r, mid, i)
         IN  IF Len(half) = 0 THEN half
             ELSE cc_pick_pivot_loop(half, p, q, r, nnext, mid)

cc_rs3_5_2_pick_pivot(a, first, last, s0) ==
    LET s == IF s0 < 2 THEN 2 ELSE s0
        nelem == last - first
    IN  IF nelem < 15 THEN [a |-> a, pos |-> first + nelem \div 2]
        ELSE IF nelem < 80 THEN
            [a |-> a, pos |-> cc_median3(a, first, first + nelem \div 2, last - 1)]
        ELSE IF nelem < s*30 \/ nelem < 200 THEN
            [a |-> a, pos |-> cc_median5(a, first, first + nelem \div 4, first + nelem \div 2,
                                         first + (3*nelem) \div 4, last - 1)]
        ELSE
            LET nnext == nelem \div (15*s)
                p == first + 0*(nelem \div 15)
                q == first + 7*(nelem \div 15)
                r == last - 7*nnext
                a1 == cc_pick_pivot_loop(a, p, q, r, nnext, 0)
            IN  cc_rs3_5_2_find_kth(a1, q, q + nnext, nnext \div 2, s)

\* rs3_5_2_find_kth after its call of partition, which returned pt
cc_find_kth_recurse(pt, first, last, k) ==
    LET pivotx == pt.pos
        nl == pivotx - first
    IN  IF nl < k THEN cc_rs3_5_2_find_kth(pt.a, pivotx + 1, last, k - nl - 1, 2)
        ELSE IF k < nl THEN cc_rs3_5_2_find_kth(pt.a, first, first + nl, k, 2)
        ELSE [a |-> pt.a, pos |-> pivotx]

cc_rs3_5_2_find_kth(a, first, last, k, s) ==
    IF last - first < 7 THEN [a |-> cc_insertion_sort(a, first, last), pos |-> first + k]
    ELSE cc_find_kth_recurse(
             cc_partition_at(cc_rs3_5_2_pick_pivot(a, first, last, s), first, last),
             first, last, k)

(***************************************************************************)
(* operator< variant (hh): the thinning parameter is the template          *)
(* argument s_.                                                            *)
(***************************************************************************)
hh_median3(m, a, b, c) ==
    LET lp(x, y) == lt(Deref(m, x), Deref(m, y))
    IN  IF lp(a, b)
        THEN (IF lp(b, c) THEN b ELSE (IF lp(a, c) THEN c ELSE a))
        ELSE (IF lp(a, c) THEN a ELSE (IF lp(b, c) THEN c ELSE b))

hh_median5(m, a, b, c, d, e) ==
    LET gp(x, y) == gt(Deref(m, x), Deref(m, y))
        s1 == gp(a, b)
        a1 == IF s1 THEN b ELSE a
        b1 == IF s1 THEN a ELSE b
        s2 == gp(c, d)
        c1 == IF s2 THEN d ELSE c
        d1 == IF s2 THEN c ELSE d
        s3 == gp(a1, c1)
        a2 == IF s3 THEN c1 ELSE a1
        c2 == IF s3 THEN a1 ELSE c1
        b2 == IF s3 THEN d1 ELSE b1
        d2 == IF s3 THEN b1 ELSE d1
        s4 == gp(b2, e)
        b3 == IF s4 THEN e ELSE b2
        e3 == IF s4 THEN b2 ELSE e
    IN  IF gp(b3, c2)
        THEN (IF gp(b3, d2) THEN d2 ELSE b3)
        ELSE (IF gp(c2, e3) THEN e3 ELSE c2)

RECURSIVE hh_insertion_shift(_, _, _, _)
hh_insertion_shift(a, first, cursor, target) ==
    LET a1 == [a EXCEPT ![cursor + 1] = a[cursor]]
        c1 == cursor - 1
    IN  IF first # c1 /\ lt(target, Deref(a1, c1 - 1))
        THEN hh_insertion_shift(a1, first, c1, target)
        ELSE [a1 EXCEPT ![c1 + 1] = target]

RECURSIVE hh_insertion_loop(_, _, _, _)
hh_insertion_loop(a, first, last, current) ==
    IF current # last THEN
        LET a1 == IF lt(Deref(a, current), Deref(a, current - 1))
                  THEN hh_insertion_shift(a, first, current, Deref(a, current))
                  ELSE a
        IN  hh_insertion_loop(a1, first, last, current + 1)
    ELSE a

hh_insertion_sort(a, first, last) ==
    IF first = last THEN a ELSE hh_insertion_loop(a, first, last, first + 1)

hh_partition_step(s, pivot) ==
    IF s.at = "hi" THEN
        LET hi == s.hi - 1 IN
        IF s.lo = hi THEN [s EXCEPT !.hi = hi, !.at = "end"]
        ELSE IF le(Deref(s.a, hi), Deref(s.a, pivot))
             THEN [s EXCEPT !.hi = hi, !.at = "lo"]
             ELSE [s EXCEPT !.hi = hi]
    ELSE IF s.at = "lo" THEN
        LET lo == s.lo + 1 IN
        IF lo = s.hi THEN [s EXCEPT !.lo = lo, !.at = "end"]
        ELSE IF ge(Deref(s.a, lo), Deref(s.a, pivot))
             THEN [s EXCEPT !.lo = lo, !.at = "hi", !.a = iter_swap(s.a, lo, s.hi)]
             ELSE [s EXCEPT !.lo = lo]
    ELSE s

RECURSIVE hh_partition_run(_, _, _)
hh_partition_run(s, pivot, k) ==
    IF k = 0 THEN s
    ELSE IF k = 1 THEN hh_partition_step(s, pivot)
    ELSE LET half == hh_partition_run(s, pivot, k \div 2)
         IN  IF half.at = "end" THEN half
             ELSE hh_partition_run(half, pivot, k - (k \div 2))

\* hh_partition_end with a fault seeded: the pivot is left at the start of the range
hh_partition_end_pivot_left(s, first) ==
    [a |-> s.a, pos |-> s.lo, ended |-> s.at = "end", ok |-> TRUE]

hh_partition_end(s, first) ==
    [a |-> iter_swap(s.a, first, s.lo), pos |-> s.lo, ended |-> s.at = "end", ok |-> TRUE]

hh_partition(a, first, last, pivot) ==
    hh_partition_end(
        hh_partition_run(
            [a |-> IF first # pivot THEN iter_swap(a, first, pivot) ELSE a,
             lo |-> first, hi |-> last, at |-> "hi"],
            first, last - first),
        first)

\* the call of partition with the pivot pv that the pivot selector returned
hh_partition_at(pv, first, last) == hh_partition(pv.a, first, last, pv.pos)

RECURSIVE hh_rs3_5_2_select_pivot(_, _, _, _)
RECURSIVE hh_rs3_5_2_select_kth(_, _, _, _, _)

\* iteration i of the for loop
hh_select_pivot_body(a, p, q, r, i) ==
        LET x0 == hh_median3(a, p+i*7+0, p+i*7+1, p+i*7+2)
            x1 == hh_median3(a, p+i*7+3, p+i*7+4, p+i*7+5)
            x2 == hh_median3(a, p+i*7+6, q+i,     r+i*7+0)
            x3 == hh_median3(a, r+i*7+1, r+i*7+2, r+i*7+3)
            x4 == hh_median3(a, r+i*7+4, r+i*7+5, r+i*7+6)
            xx == hh_median5(a, x0, x1, x2, x3, x4)
        IN  IF xx # q+i THEN iter_swap(a, xx, q+i) ELSE a

\* the for loop: its iterations i .. nnext-1, in order (run by halves)
RECURSIVE hh_select_pivot_loop(_, _, _, _, _, _)
hh_select_pivot_loop(a, p, q, r, nnext, i) ==
    IF i >= nnext THEN a
    ELSE IF i + 1 = nnext THEN hh_select_pivot_body(a, p, q, r, i)
    ELSE LET mid == i + (nnext - i) \div 2
             half == hh_select_pivot_loop(a, p, q, r, mid, i)
         IN  IF Len(half) = 0 THEN half
             ELSE hh_select_pivot_loop(half, p, q, r, nnext, mid)

hh_rs3_5_2_select_pivot(s_, a, first, last) ==
    LET nelem == last - first IN
    IF nelem < 15 THEN [a |-> a, pos |-> first + nelem \div 2]
    ELSE IF nelem < 80 THEN
        [a |-> a, pos |-> hh_median3(a, first, first + nelem \div 2, last - 1)]
    ELSE IF nelem < Max(30*s_, 200) THEN
        [a |-> a, pos |-> hh_median5(a, first, first + nelem \div 4, first + nelem \div 2,
                                     first + (3*nelem) \div 4, last - 1)]
    ELSE
        LET nnext == nelem \div (15*s_)
            p == first + 0*(nelem \div 15)
            q == first + 7*(nelem \div 15)
            r == last - 7*nnext
            a1 == hh_select_pivot_loop(a, p, q, r, nnext, 0)
        IN  hh_rs3_5_2_select_kth(2, a1, q, q + nnext, nnext \div 2)

\* rs3_5_2_select_kth after its call of partition, which returned pt
hh_select_kth_recurse(pt, first, last, k) ==
    LET pivotx == pt.pos
        nl == pivotx - first
    IN  IF nl < k THEN hh_rs3_5_2_select_kth(2, pt.a, pivotx + 1, last, k - nl - 1)
        ELSE IF k < nl THEN hh_rs3_5_2_select_kth(2, pt.a, first, first + nl, k)
        ELSE [a |-> pt.a, pos |-> pivotx]

hh_rs3_5_2_select_kth(s_, a, first, last, k) ==
    IF last - first = 1 THEN [a |-> a, pos |-> first]
    ELSE IF last - first = 2 THEN
        [a |-> IF gt(Deref(a, first), Deref(a, first + 1))
               THEN iter_swap(a, first, first + 1) ELSE a,
         pos |-> first + k]
    ELSE hh_select_kth_recurse(
             hh_partition_at(hh_rs3_5_2_select_pivot(s_, a, first, last), first, last),
             first, last, k)

(***************************************************************************)
(* Quicksort.  The body operators run one activation of the routine up to  *)
(* its recursive calls and say what it does next:                          *)
(*   [kind |-> "return", a, calls]                 it returns              *)
(*   [kind |-> "recurse", a, calls, first, second, thin, pivot_pos]        *)
(*       it calls itself on the range first, then (tail call) on second,   *)
(*       both with thinning parameter thin.                                *)
(* calls is the set of routines the activation entered.                    *)
(***************************************************************************)
\* the routines rs3_5_2_pick_pivot enters for n elements (thin as passed)
c_pick_pivot_calls(n, thin) ==
    IF n < 15 THEN {"rs3_5_2_pick_pivot"}
    ELSE IF n < 80 THEN {"rs3_5_2_pick_pivot", "median3"}
    ELSE IF n < 30 * (IF thin < 2 THEN 2 ELSE thin) \/ n < 200
         THEN {"rs3_5_2_pick_pivot", "median5"}
    ELSE {"rs3_5_2_pick_pivot", "median3", "median5", "rs3_5_2_find_kth"}

\* the routines rs3_5_2_select_pivot<s_> enters for nelem elements
hh_select_pivot_calls(s_, nelem) ==
    IF nelem < 15 THEN {"rs3_5_2_select_pivot"}
    ELSE IF nelem < 80 THEN {"rs3_5_2_select_pivot", "median3"}
    ELSE IF nelem < Max(30 * s_, 200) THEN {"rs3_5_2_select_pivot", "median5"}
    ELSE {"rs3_5_2_select_pivot", "median3", "median5", "rs3_5_2_select_kth"}

\* RecursiveCalls with a fault seeded: the comparison of the two sides is inverted
RecursiveCalls_larger_first(pt, begin, end, unit, thin, entered) ==
    LET pivot_pos == pt.pos
        left  == <<begin, pivot_pos>>
        right == <<pivot_pos + unit, end>>
    IN  [kind |-> "recurse", a |-> pt.a, calls |-> entered, ok |-> pt.ok,
         first  |-> IF end - pivot_pos > pivot_pos - begin THEN right ELSE left,
         second |-> IF end - pivot_pos > pivot_pos - begin THEN left ELSE right,
         thin |-> thin, pivot_pos |-> pivot_pos]

\* the two recursive calls, after partition returned pt: first and second are
\* the ranges in the order of the calls
RecursiveCalls(pt, begin, end, unit, thin, entered) ==
    LET pivot_pos == pt.pos
        left  == <<begin, pivot_pos>>
        right == <<pivot_pos + unit, end>>
    IN  [kind |-> "recurse", a |-> pt.a, calls |-> entered, ok |-> pt.ok,
         first  |-> IF end - pivot_pos < pivot_pos - begin THEN right ELSE left,
         second |-> IF end - pivot_pos < pivot_pos - begin THEN left ELSE right,
         thin |-> thin, pivot_pos |-> pivot_pos]

c_quicksort_recurse(pt, begin, end, esz, thin) ==
    RecursiveCalls(pt, begin, end, esz, (thin * 12) \div 17,
                   {"partition", "cmp"} \cup c_pick_pivot_calls((end - begin) \div esz, thin))

c_quicksort_clamped(a, begin, end, esz, thin, n) ==
    IF n <= 1 THEN [kind |-> "return", a |-> a, calls |-> {}, ok |-> TRUE]
    ELSE IF n = 2 THEN
        [kind |-> "return", calls |-> {"cmp"}, ok |-> TRUE,
         a |-> IF cmp(At(a, begin, esz), At(a, begin + esz, esz)) > 0
               THEN c_swap(a, begin, begin + esz, esz) ELSE a]
    ELSE c_quicksort_recurse(
             c_partition_at(c_rs3_5_2_pick_pivot(a, begin, n, esz, thin), begin, n, esz),
             begin, end, esz, thin)

c_quicksort_body(a, begin, end, esz, thin) ==
    IF ~(begin <= end /\ esz > 0 /\ (end - begin) % esz = 0)
    THEN [kind |-> "return", a |-> a, calls |-> {}, ok |-> FALSE]
    ELSE c_quicksort_clamped(a, begin, end, esz, IF thin < 10 THEN 10 ELSE thin,
                             (end - begin) \div esz)

cc_quicksort_recurse(pt, first, last, s) ==
    RecursiveCalls(pt, first, last, 1, (s * 12) \div 17,
                   {"partition", "cmp"} \cup c_pick_pivot_calls(last - first, s))

cc_quicksort_clamped(a, first, last, s) ==
    IF last - first < 16 THEN
        [kind |-> "return", ok |-> TRUE, a |-> cc_insertion_sort(a, first, last),
         calls |-> {"insertion_sort"} \cup (IF last - first > 1 THEN {"cmp"} ELSE {})]
    ELSE cc_quicksort_recurse(
             cc_partition_at(cc_rs3_5_2_pick_pivot(a, first, last, s), first, last),
             first, last, s)

cc_quicksort_body(a, first, last, s) ==
    cc_quicksort_clamped(a, first, last, IF s < 10 THEN 10 ELSE s)

hh_quicksort_recurse(pt, first, last) ==
    RecursiveCalls(pt, first, last, 1, 21,
                   {"partition", "cmp"} \cup hh_select_pivot_calls(21, last - first))

hh_quicksort(a, first, last) ==
    IF last - first < 24 THEN
        [kind |-> "return", ok |-> TRUE, a |-> hh_insertion_sort(a, first, last),
         calls |-> {"insertion_sort"} \cup (IF last - first > 1 THEN {"cmp"} ELSE {})]
    ELSE hh_quicksort_recurse(
             hh_partition_at(hh_rs3_5_2_select_pivot(21, a, first, last), first, last),
             first, last)

\* the activation of the quicksort routine of variant v that frame f stands for
Body(v, a, f, esz) ==
    CASE v = "c"  -> c_quicksort_body(a, f.begin, f.end, esz, f.thin)
      [] v = "cc" -> cc_quicksort_body(a, f.begin, f.end, f.thin)
      [] v = "hh" -> hh_quicksort(a, f.begin, f.end)

\* a frame of the quicksort routine: at "enter" it has not run yet, at "first"
\* it is in (or back from) its first recursive call, with second still to make
Frame(begin, end, thin) ==
    [begin |-> begin, end |-> end, thin |-> thin, at |-> "enter",
     first |-> <<0, 0>>, second |-> <<0, 0>>, next_thin |-> 0, pivot_pos |-> 0]

Top == stack[Len(stack)]
Pop == SubSeq(stack, 1, Len(stack) - 1)

(***************************************************************************)
(* Inputs.                                                                 *)
(***************************************************************************)
Variants == {"c", "cc", "hh"}

\* element sizes tried for the C variant (0 is refused at the entry points)
ElemSizes == {0, 4}

\* a sequence of keys as an array of distinguishable elements
Tagged(keys) == [i \in 1..Len(keys) |-> <<keys[i], i>>]

SmallInputs == UNION {{Tagged(ks) : ks \in [1..n -> 0..MaxKey]} : n \in 0..MaxLen}

\* larger arrays: the lengths that reach the insertion-sort thresholds, the
\* median-of-3, median-of-5 and median-of-medians pivot paths of each variant
Patterns == {"asc", "desc", "flat", "saw", "mix"}
BigShapes == ({16, 24, 90} \X Patterns) \cup ({630} \X {"desc", "flat", "mix"})
PatternKey(pat, n, i) ==
    CASE pat = "asc"  -> i
      [] pat = "desc" -> n - i
      [] pat = "flat" -> 0
      [] pat = "saw"  -> i % 3
      [] pat = "mix"  -> (i * 271) % 641
      [] pat = "rot"  -> (i + n - 7 * (n \div 15) - 1) % n
Pattern(n, pat) == [i \in 1..n |-> <<PatternKey(pat, n, i), i>>]
BigInputs == {Pattern(sh[1], sh[2]) : sh \in BigShapes}

\* the arguments besides the sequence: null (the C variant is passed a null
\* pointer), k (the rank, for select), first, last, pivot (for partition and
\* the pivot selectors, as element indexes), thin (the thinning parameter),
\* at (the positions passed to a median selector, as element indexes)
NoArgs == [null |-> FALSE, k |-> 0, first |-> 0, last |-> 0, pivot |-> 0, thin |-> 0,
           at |-> <<>>, n |-> 0]

Init ==
    /\ (arr \in SmallInputs \/ arr \in BigInputs)
    /\ orig = arr
    /\ variant \in Variants
    /\ sz \in (IF variant = "c" THEN ElemSizes ELSE {1})
    /\ api = "none"
    /\ phase = "idle"
    /\ stack = <<>>
    /\ started = {}
    /\ round = 0
    /\ first_out = <<>>
    /\ args = NoArgs
    /\ ret = -1
    /\ ok = TRUE

(***************************************************************************)
(* Entry points of the sort.                                               *)
(***************************************************************************)
\* what the three sort entry points share once the guards are passed
EnterBody(n, unit, thins, entered) ==
    /\ \E thin \in thins : stack' = <<Frame(0, n * unit, thin)>>
    /\ started' = entered
    /\ phase' = "running"

ReturnAtEntry ==
    /\ stack' = <<>>
    /\ started' = {}
    /\ phase' = "done"

\* void quicksort_mm_quicksort(void *p, size_t n, size_t sz, comparator cmp)
c_quicksort_mm_quicksort ==
    /\ variant = "c" /\ phase = "idle" /\ round < 2
    /\ \E isnull \in (IF round = 0 THEN BOOLEAN ELSE {FALSE}) :
        /\ args' = [args EXCEPT !.null = isnull]
        /\ IF isnull \/ Len(arr) = 0 \/ sz = 0
           THEN ReturnAtEntry
           ELSE EnterBody(Len(arr), sz, approx_sqrt(Len(arr)), {"approx_sqrt", "quicksort_body"})
    /\ api' = "sort" /\ orig' = arr /\ round' = round + 1
    /\ UNCHANGED <<variant, arr, sz, first_out, ret, ok>>

\* void quicksort(first, last, cmp): no guard, approx_sqrt(nelem) is evaluated
cc_quicksort ==
    /\ variant = "cc" /\ phase = "idle" /\ round < 2
    /\ EnterBody(Len(arr), 1, approx_sqrt(Len(arr)), {"approx_sqrt", "quicksort_body"})
    /\ api' = "sort" /\ orig' = arr /\ round' = round + 1
    /\ UNCHANGED <<variant, arr, sz, first_out, args, ret, ok>>

\* void quicksort(first, last): the routine is its own body
hh_quicksort_call ==
    /\ variant = "hh" /\ phase = "idle" /\ round < 2
    /\ EnterBody(Len(arr), 1, {21}, {})
    /\ api' = "sort" /\ orig' = arr /\ round' = round + 1
    /\ UNCHANGED <<variant, arr, sz, first_out, args, ret, ok>>

(***************************************************************************)
(* The quicksort routine, one activation at a time.                        *)
(***************************************************************************)
\* the activation on top, which does out, returns
ReturnFrom(out) ==
    /\ out.kind = "return"
    /\ arr' = out.a
    /\ started' = started \cup out.calls
    /\ stack' = Pop
    /\ phase' = IF Len(stack) = 1 THEN "done" ELSE "running"
    /\ ok' = (ok /\ out.ok)

\* the activation on top, which does out, is suspended in its first call
FirstCallFrom(out) ==
    /\ out.kind = "recurse"
    /\ arr' = out.a
    /\ started' = started \cup out.calls
    /\ stack' = Append(
          [stack EXCEPT ![Len(stack)] =
              [@ EXCEPT !.at = "first", !.first = out.first, !.second = out.second,
                        !.next_thin = out.thin, !.pivot_pos = out.pivot_pos]],
          Frame(out.first[1], out.first[2], out.thin))
    /\ ok' = (ok /\ out.ok)

\* the activation on top runs to its return
quicksort_return ==
    /\ phase = "running" /\ api = "sort" /\ stack # <<>> /\ Top.at = "enter"
    /\ ReturnFrom(Body(variant, arr, Top, sz))
    /\ UNCHANGED <<variant, api, orig, sz, round, first_out, args, ret>>

\* the activation on top picks a pivot, partitions, and makes its first call
quicksort_first_call ==
    /\ phase = "running" /\ api = "sort" /\ stack # <<>> /\ Top.at = "enter"
    /\ FirstCallFrom(Body(variant, arr, Top, sz))
    /\ UNCHANGED <<variant, api, phase, orig, sz, round, first_out, args, ret>>

\* the first call has returned: the second call is the tail call, made as the
\* next iteration of the same activation
quicksort_tail_call ==
    /\ phase = "running" /\ api = "sort" /\ stack # <<>> /\ Top.at = "first"
    /\ stack' = [stack EXCEPT ![Len(stack)] = Frame(@.second[1], @.second[2], @.next_thin)]
    /\ UNCHANGED <<variant, api, phase, arr, orig, sz, started, round, first_out, args, ret, ok>>

\* the caller passes the sequence the sort has left to the sort once more
sort_again ==
    /\ phase = "done" /\ api = "sort" /\ round = 1 /\ ~args.null
    /\ phase' = "idle"
    /\ first_out' = arr
    /\ UNCHANGED <<variant, api, arr, orig, sz, stack, started, round, args, ret, ok>>

Next ==
    \/ c_quicksort_mm_quicksort
    \/ cc_quicksort
    \/ hh_quicksort_call
    \/ quicksort_return
    \/ quicksort_first_call
    \/ quicksort_tail_call
    \/ sort_again

Spec == Init /\ [][Next]_vars

(***************************************************************************)
(* Quickselect: the entry points, each run to its return.                  *)
(***************************************************************************)
\* the ranks tried on a sequence of n elements: n itself is out of range
Ranks(n) == IF n <= MaxLen THEN 0..n ELSE {0, n \div 3, n \div 2, n - 1, n}

\* the state before a call that is not a sort
InitCall ==
    /\ orig = arr
    /\ variant \in Variants
    /\ api = "none"
    /\ stack = <<>>
    /\ started = {}
    /\ round = 0
    /\ first_out = <<>>
    /\ ret = -1
    /\ ok = TRUE

InitSelect ==
    /\ (arr \in SmallInputs \/ arr \in BigInputs)
    /\ InitCall
    /\ phase = "idle"
    /\ sz \in (IF variant = "c" THEN ElemSizes ELSE {1})
    /\ args \in {[NoArgs EXCEPT !.k = k] : k \in Ranks(Len(arr))}

\* the call returns at an entry guard
Refused ==
    /\ arr' = arr
    /\ ret' = -1
    /\ started' = {}
    /\ ok' = ok

\* the call returns what the k-th element routine r returned
Selected(r, entered) ==
    /\ arr' = r.a
    /\ ret' = r.pos
    /\ started' = entered

\* void quicksort_mm_quickselect(void *p, size_t n, size_t sz, size_t kth, comparator cmp)
c_quicksort_mm_quickselect ==
    /\ variant = "c" /\ phase = "idle"
    /\ \E isnull \in BOOLEAN :
        /\ args' = [args EXCEPT !.null = isnull]
        /\ IF isnull \/ sz = 0 \/ Len(arr) = 0 \/ Len(arr) <= args.k
           THEN Refused
           ELSE \E thin \in approx_sqrt(Len(arr)) :
                   /\ Selected(c_rs3_5_2_find_kth(arr, 0, Len(arr), sz, thin, args.k),
                               {"approx_sqrt", "rs3_5_2_find_kth", "cmp"})
                   /\ ok' = c_rs3_5_2_find_kth(arr, 0, Len(arr), sz, thin, args.k).ok
    /\ api' = "select" /\ phase' = "done"
    /\ UNCHANGED <<variant, orig, sz, stack, round, first_out>>

\* void quickselect(first, kth, last, cmp)
cc_quickselect ==
    /\ variant = "cc" /\ phase = "idle"
    /\ IF Len(arr) <= args.k
       THEN Refused
       ELSE /\ \E s \in approx_sqrt(Len(arr)) :
                 Selected(cc_rs3_5_2_find_kth(arr, 0, Len(arr), args.k, s),
                          {"approx_sqrt", "rs3_5_2_find_kth", "cmp"})
            /\ ok' = ok
    /\ api' = "select" /\ phase' = "done"
    /\ UNCHANGED <<variant, orig, sz, stack, round, first_out, args>>

\* void quickselect(first, kth, last)
hh_quickselect ==
    /\ variant = "hh" /\ phase = "idle"
    /\ IF Len(arr) <= args.k
       THEN Refused
       ELSE /\ Selected(hh_rs3_5_2_select_kth(21, arr, 0, Len(arr), args.k),
                        {"rs3_5_2_select_kth", "cmp"})
            /\ ok' = ok
    /\ api' = "select" /\ phase' = "done"
    /\ UNCHANGED <<variant, orig, sz, stack, round, first_out, args>>

NextSelect ==
    \/ c_quicksort_mm_quickselect
    \/ cc_quickselect
    \/ hh_quickselect

SpecSelect == InitSelect /\ [][NextSelect]_vars

(***************************************************************************)
(* Partition, called on a range [first, last) of the sequence with a pivot *)
(* position inside it.                                                     *)
(***************************************************************************)
\* the ranges and pivots tried on a sequence of n elements
PartitionArgs(n) ==
    IF n <= MaxLen
    THEN {[NoArgs EXCEPT !.first = f, !.last = l, !.pivot = p] :
            f \in 0..(n - 1), l \in 1..n, p \in 0..(n - 1)}
    ELSE {[NoArgs EXCEPT !.first = 0, !.last = n, !.pivot = p] : p \in {0, n \div 2, n - 1}}

InitPartition ==
    /\ (arr \in SmallInputs \/ arr \in BigInputs)
    /\ InitCall
    /\ phase = "ready"
    /\ sz \in (IF variant = "c" THEN ElemSizes \ {0} ELSE {1})
    /\ args \in {x \in PartitionArgs(Len(arr)) : x.first <= x.pivot /\ x.pivot < x.last}

\* partition returned pt
Partitioned(pt) ==
    /\ arr' = pt.a
    /\ ret' = pt.pos
    /\ ok' = pt.ok
    /\ started' = started \cup {"partition", "cmp"}

c_partition_call ==
    /\ variant = "c" /\ phase = "ready"
    /\ Partitioned(c_partition(arr, args.first * sz, args.pivot * sz,
                               args.last - args.first, sz))
    /\ api' = "partition" /\ phase' = "done"
    /\ UNCHANGED <<variant, orig, sz, stack, round, first_out, args>>

cc_partition_call ==
    /\ variant = "cc" /\ phase = "ready"
    /\ Partitioned(cc_partition(arr, args.first, args.last, args.pivot))
    /\ api' = "partition" /\ phase' = "done"
    /\ UNCHANGED <<variant, orig, sz, stack, round, first_out, args>>

hh_partition_call ==
    /\ variant = "hh" /\ phase = "ready"
    /\ Partitioned(hh_partition(arr, args.first, args.last, args.pivot))
    /\ api' = "partition" /\ phase' = "done"
    /\ UNCHANGED <<variant, orig, sz, stack, round, first_out, args>>

NextPartition ==
    \/ c_partition_call
    \/ cc_partition_call
    \/ hh_partition_call

SpecPartition == InitPartition /\ [][NextPartition]_vars

(***************************************************************************)
(* The pivot selector called on the whole sequence with a thinning         *)
(* parameter, and the partition that quicksort_body and the k-th element   *)
(* routine run next with the pivot it returned.                            *)
(***************************************************************************)
PivotShapes == ({200, 211, 255, 300} \X {"asc", "desc", "flat", "saw", "mix", "rot"})
                   \cup ({630} \X {"mix", "rot"})
PivotInputs == {Pattern(sh[1], sh[2]) : sh \in PivotShapes}
Thins == {1, 2, 3, 7, 21}

InitPivot ==
    /\ arr \in PivotInputs
    /\ InitCall
    /\ phase = "idle"
    /\ sz \in (IF variant = "c" THEN ElemSizes \ {0} ELSE {1})
    /\ args \in {[NoArgs EXCEPT !.last = Len(arr), !.thin = s] : s \in Thins}

\* the selector returned pv: the partition is called next with its pivot
Picked(pv, unit, entered) ==
    /\ arr' = pv.a
    /\ ret' = pv.pos
    /\ args' = [args EXCEPT !.pivot = pv.pos \div unit]
    /\ started' = entered \cup {"cmp"}

c_pick_pivot_call ==
    /\ variant = "c" /\ phase = "idle"
    /\ Picked(c_rs3_5_2_pick_pivot(arr, 0, Len(arr), sz, args.thin), sz,
              c_pick_pivot_calls(Len(arr), args.thin))
    /\ ok' = c_rs3_5_2_pick_pivot(arr, 0, Len(arr), sz, args.thin).ok
    /\ api' = "pick_pivot" /\ phase' = "ready"
    /\ UNCHANGED <<variant, orig, sz, stack, round, first_out>>

cc_pick_pivot_call ==
    /\ variant = "cc" /\ phase = "idle"
    /\ Picked(cc_rs3_5_2_pick_pivot(arr, 0, Len(arr), args.thin), 1,
              c_pick_pivot_calls(Len(arr), args.thin))
    /\ api' = "pick_pivot" /\ phase' = "ready"
    /\ UNCHANGED <<variant, orig, sz, stack, round, first_out, ok>>

hh_select_pivot_call ==
    /\ variant = "hh" /\ phase = "idle"
    /\ Picked(hh_rs3_5_2_select_pivot(args.thin, arr, 0, Len(arr)), 1,
              hh_select_pivot_calls(args.thin, Len(arr)))
    /\ api' = "pick_pivot" /\ phase' = "ready"
    /\ UNCHANGED <<variant, orig, sz, stack, round, first_out, ok>>

NextPivot ==
    \/ c_pick_pivot_call
    \/ cc_pick_pivot_call
    \/ hh_select_pivot_call
    \/ c_partition_call
    \/ cc_partition_call
    \/ hh_partition_call

SpecPivot == InitPivot /\ [][NextPivot]_vars

(***************************************************************************)
(* The median selectors, called with 3 or 5 distinct positions.            *)
(***************************************************************************)
MaxMedianKey == 4

\* the orders in which the positions 0..n-1 are passed
Orders(n) ==
    IF n = 3 THEN {<<0, 1, 2>>, <<0, 2, 1>>, <<1, 0, 2>>, <<1, 2, 0>>, <<2, 0, 1>>, <<2, 1, 0>>}
    ELSE {<<0, 1, 2, 3, 4>>, <<4, 3, 2, 1, 0>>}

MedianInputs == UNION {{Tagged(ks) : ks \in [1..n -> 0..MaxMedianKey]} : n \in {3, 5}}

InitMedian ==
    /\ arr \in MedianInputs
    /\ InitCall
    /\ phase = "idle"
    /\ sz \in (IF variant = "c" THEN ElemSizes \ {0} ELSE {1})
    /\ args \in {[NoArgs EXCEPT !.at = o] : o \in Orders(Len(arr))}

\* a selector returned the position pos
MedianReturned(pos, name) ==
    /\ ret' = pos
    /\ api' = name /\ phase' = "done"
    /\ started' = {name, "cmp"}
    /\ UNCHANGED <<variant, arr, orig, sz, stack, round, first_out, args, ok>>

c_median3_call ==
    /\ variant = "c" /\ phase = "idle" /\ Len(args.at) = 3
    /\ MedianReturned(c_median3(arr, args.at[1] * sz, args.at[2] * sz, args.at[3] * sz, sz),
                      "median3")

c_median5_call ==
    /\ variant = "c" /\ phase = "idle" /\ Len(args.at) = 5
    /\ MedianReturned(c_median5(arr, args.at[1] * sz, args.at[2] * sz, args.at[3] * sz,
                                args.at[4] * sz, args.at[5] * sz, sz),
                      "median5")

cc_median3_call ==
    /\ variant = "cc" /\ phase = "idle" /\ Len(args.at) = 3
    /\ MedianReturned(cc_median3(arr, args.at[1], args.at[2], args.at[3]), "median3")

cc_median5_call ==
    /\ variant = "cc" /\ phase = "idle" /\ Len(args.at) = 5
    /\ MedianReturned(cc_median5(arr, args.at[1], args.at[2], args.at[3], args.at[4],
                                 args.at[5]),
                      "median5")

hh_median3_call ==
    /\ variant = "hh" /\ phase = "idle" /\ Len(args.at) = 3
    /\ MedianReturned(hh_median3(arr, args.at[1], args.at[2], args.at[3]), "median3")

hh_median5_call ==
    /\ variant = "hh" /\ phase = "idle" /\ Len(args.at) = 5
    /\ MedianReturned(hh_median5(arr, args.at[1], args.at[2], args.at[3], args.at[4],
                                 args.at[5]),
                      "median5")

NextMedian ==
    \/ c_median3_call
    \/ c_median5_call
    \/ cc_median3_call
    \/ cc_median5_call
    \/ hh_median3_call
    \/ hh_median5_call

SpecMedian == InitMedian /\ [][NextMedian]_vars

(***************************************************************************)
(* C variant, call by call: every call of quicksort_body,                  *)
(* rs3_5_2_pick_pivot and rs3_5_2_find_kth is an activation on the stack,  *)
(* no call is turned into a loop.  An activation is                        *)
(*   [fn, p, n, end, thin, kth, from, at, got, nl, nr, second]             *)
(* fn: the routine; p, n: its range (end: the end pointer quicksort_body   *)
(* is passed); from: the number of elements of the range of its caller;    *)
(* at: "enter" (not run yet), "pivot" (its call of rs3_5_2_pick_pivot is   *)
(* made), "first" / "second" (that recursive call of quicksort_body is     *)
(* made), "tail" (the call whose result it returns is made); got: what the *)
(* call it made returned.  The activation on top of the stack runs; below  *)
(* the top every activation waits for the call it made.  round counts the  *)
(* steps taken since the entry point was called.                           *)
(***************************************************************************)
MaxCallLen == 4

\* no more activations than this are on the stack at once
MaxDepth == 40

Activation(fn, p, n, end, thin, kth, from) ==
    [fn |-> fn, p |-> p, n |-> n, end |-> end, thin |-> thin, kth |-> kth, from |-> from,
     at |-> "enter", got |-> 0, nl |-> 0, nr |-> 0, second |-> <<0, 0>>]

\* quicksort_body(begin, end, sz, cmp, thin), called from a range of from elements
BodyCall(begin, end, thin, from) ==
    Activation("quicksort_body", begin, (end - begin) \div sz, end, thin, 0, from)

\* rs3_5_2_find_kth(p, n, sz, thin, kth, cmp)
KthCall(p, n, thin, kth, from) ==
    Activation("rs3_5_2_find_kth", p, n, p + n * sz, thin, kth, from)

\* rs3_5_2_pick_pivot(p, n, sz, thin, cmp)
PivotCall(p, n, thin, from) ==
    Activation("rs3_5_2_pick_pivot", p, n, p + n * sz, thin, 0, from)

CallInputs ==
    UNION {{Tagged(ks) : ks \in [1..n -> 0..MaxKey]} : n \in 0..MaxCallLen} \cup BigInputs

\* the ranks tried on n elements (the last one is refused)
CallRanks(n) == IF n <= MaxCallLen THEN 0..n ELSE {0, n \div 2, n}

InitCalls ==
    /\ arr \in CallInputs
    /\ InitCall
    /\ variant = "c"
    /\ phase = "idle"
    /\ sz \in ElemSizes
    /\ args \in {[NoArgs EXCEPT !.k = k, !.n = Len(arr)] : k \in CallRanks(Len(arr))}

\* size_t arithmetic: size_t is taken 16 bits wide, the least width C allows
SizeT(x) == x % (2 ^ 16)

\* the calls checked for assertions: p points to the elements of arr, each of
\* sz bytes, and the count args.n passed is their number or one whose product
\* with an element size does not fit size_t
InitAsserts ==
    /\ arr \in CallInputs
    /\ InitCall
    /\ variant = "c"
    /\ phase = "idle"
    /\ sz \in {0, 3, 4}
    /\ args \in {[NoArgs EXCEPT !.k = k, !.n = n] :
                    k \in CallRanks(Len(arr)),
                    n \in {Len(arr), SizeT(-1) \div 3 + 1, SizeT(-1) \div 4 + 1}}

Running(fn, at) == phase = "running" /\ Top.fn = fn /\ Top.at = at

\* the running activation calls f and waits for it at position at
Call(f, at) ==
    /\ Len(stack) < MaxDepth
    /\ stack' = Append([stack EXCEPT ![Len(stack)].at = at], f)

\* the running activation returns v to its caller, or to the caller of the
\* entry point
Return(v) ==
    IF Len(stack) = 1
    THEN stack' = <<>> /\ phase' = "done" /\ ret' = v
    ELSE stack' = [Pop EXCEPT ![Len(stack) - 1].got = v] /\ phase' = phase /\ ret' = ret

\* quicksort_body returns (no value)
ReturnVoid ==
    IF Len(stack) = 1
    THEN stack' = <<>> /\ phase' = "done" /\ ret' = ret
    ELSE stack' = Pop /\ phase' = phase /\ ret' = ret

\* an assertion fails: the program is aborted
Abort ==
    /\ ok' = FALSE
    /\ phase' = "aborted"
    /\ UNCHANGED <<arr, stack, ret, started>>

\* what the scans of a partition that returned pt leave in started
Scans(pt) == IF pt.ended THEN {"partition", "cmp"} ELSE {"partition", "cmp", "scan_overrun"}

\* the first element of the range of the running activation is compared with
\* the second, and exchanged with it if greater
TwoSorted ==
    IF cmp(At(arr, Top.p, sz), At(arr, Top.p + sz, sz)) > 0
    THEN c_swap(arr, Top.p, Top.p + sz, sz) ELSE arr

\* the entry points: begin is offset 0 and end = begin + n*sz, the product
\* taken in size_t.  With end beyond the elements p points to, forming end
\* (or reading the elements counted) is undefined.
quicksort_mm_quicksort_enter ==
    /\ phase = "idle" /\ args.k = 0
    /\ IF args.n = 0 \/ sz = 0 \/ SizeT(args.n * sz) < 0
       THEN phase' = "done" /\ stack' = stack /\ started' = started
       ELSE IF SizeT(args.n * sz) > Len(arr) * sz
       THEN phase' = "undefined" /\ stack' = stack /\ started' = started
       ELSE \E thin \in approx_sqrt(args.n) :
               /\ stack' = <<BodyCall(0, SizeT(args.n * sz), thin, 0)>>
               /\ phase' = "running"
               /\ started' = {"approx_sqrt"}
    /\ api' = "sort" /\ round' = 1
    /\ UNCHANGED <<variant, arr, orig, sz, first_out, args, ret, ok>>

quicksort_mm_quickselect_enter ==
    /\ phase = "idle"
    /\ IF sz = 0 \/ args.n = 0 \/ args.n <= args.k \/ SizeT(args.n * sz) < 0
       THEN phase' = "done" /\ stack' = stack /\ started' = started
       ELSE IF SizeT(args.n * sz) > Len(arr) * sz \/ args.n > Len(arr)
       THEN phase' = "undefined" /\ stack' = stack /\ started' = started
       ELSE \E thin \in approx_sqrt(args.n) :
               /\ stack' = <<KthCall(0, args.n, thin, args.k, 0)>>
               /\ phase' = "running"
               /\ started' = {"approx_sqrt"}
    /\ api' = "select" /\ round' = 1
    /\ UNCHANGED <<variant, arr, orig, sz, first_out, args, ret, ok>>

\* quicksort_body up to its call of rs3_5_2_pick_pivot
quicksort_body_enter ==
    /\ Running("quicksort_body", "enter")
    /\ IF ~(Top.p <= Top.end /\ sz > 0 /\ (Top.end - Top.p) % sz = 0)
       THEN Abort
       ELSE /\ ok' = ok
            /\ started' = started \cup {"quicksort_body"}
            /\ IF Top.n <= 1 THEN arr' = arr /\ ReturnVoid
               ELSE IF Top.n = 2 THEN arr' = TwoSorted /\ ReturnVoid
               ELSE /\ arr' = arr /\ phase' = phase /\ ret' = ret
                    /\ Len(stack) < MaxDepth
                    /\ stack' = Append([stack EXCEPT ![Len(stack)].at = "pivot",
                                                     ![Len(stack)].thin = Max(Top.thin, 10)],
                                       PivotCall(Top.p, Top.n, Max(Top.thin, 10), Top.n))
    /\ round' = round + 1
    /\ UNCHANGED <<variant, api, orig, sz, first_out, args>>

\* the activation t of quicksort_body makes its first recursive call, in the
\* order rc of the two calls
BodyFirstCall(rc, t) ==
    /\ Len(stack) < MaxDepth
    /\ stack' = Append([stack EXCEPT ![Len(stack)] =
                           [t EXCEPT !.at = "first", !.second = rc.second,
                                     !.nl = (rc.pivot_pos - t.p) \div sz,
                                     !.nr = (t.end - (rc.pivot_pos + sz)) \div sz]],
                       BodyCall(rc.first[1], rc.first[2], rc.thin, t.n))

\* partition returned pt to the activation t of quicksort_body
BodyPartitioned(pt, t) ==
    IF ~pt.ok THEN Abort
    ELSE /\ arr' = pt.a
         /\ ok' = ok
         /\ started' = started \cup Scans(pt)
         /\ phase' = phase /\ ret' = ret
         /\ BodyFirstCall(RecursiveCalls(pt, t.p, t.end, sz, (t.thin * 12) \div 17, {}), t)

\* quicksort_body from the return of rs3_5_2_pick_pivot to its first recursive call
quicksort_body_partition ==
    /\ Running("quicksort_body", "pivot")
    /\ BodyPartitioned(c_partition_at([a |-> arr, pos |-> Top.got, ok |-> TRUE],
                                      Top.p, Top.n, sz),
                       Top)
    /\ round' = round + 1
    /\ UNCHANGED <<variant, api, orig, sz, first_out, args>>

\* quicksort_body makes its second recursive call
quicksort_body_second ==
    /\ Running("quicksort_body", "first")
    /\ Call(BodyCall(Top.second[1], Top.second[2], (Top.thin * 12) \div 17, Top.n), "second")
    /\ round' = round + 1
    /\ UNCHANGED <<variant, api, phase, arr, orig, sz, started, first_out, args, ret, ok>>

quicksort_body_return ==
    /\ Running("quicksort_body", "second")
    /\ ReturnVoid
    /\ round' = round + 1
    /\ UNCHANGED <<variant, api, arr, orig, sz, started, first_out, args, ok>>

\* rs3_5_2_find_kth up to its call of rs3_5_2_pick_pivot
rs3_5_2_find_kth_enter ==
    /\ Running("rs3_5_2_find_kth", "enter")
    /\ IF ~(Top.kth < Top.n)
       THEN Abort
       ELSE /\ ok' = ok
            /\ started' = started \cup {"rs3_5_2_find_kth"}
            /\ IF Top.n = 1 THEN arr' = arr /\ Return(Top.p)
               ELSE IF Top.n = 2 THEN arr' = TwoSorted /\ Return(Top.p + Top.kth * sz)
               ELSE /\ arr' = arr /\ phase' = phase /\ ret' = ret
                    /\ Call(PivotCall(Top.p, Top.n, Top.thin, Top.n), "pivot")
    /\ round' = round + 1
    /\ UNCHANGED <<variant, api, orig, sz, first_out, args>>

\* SideCall with a fault seeded: the whole range is searched again
SideCall_whole_range(t, pivotx, nl, nr) == KthCall(t.p, t.n, 2, t.kth, t.n)

\* the recursive call of the activation t of rs3_5_2_find_kth, into the side
\* of the pivot that holds the rank
SideCall(t, pivotx, nl, nr) ==
    IF nl < t.kth
    THEN KthCall(pivotx + sz, nr, 2, t.kth - nl - 1, t.n)
    ELSE KthCall(t.p, nl, 2, t.kth, t.n)

\* partition returned pt to the activation t of rs3_5_2_find_kth; nl as
\* computed from it
KthPartitioned(pt, t, nl) ==
    IF ~(pt.ok /\ (pt.pos - t.p) % sz = 0 /\ (pt.pos - t.p) \div sz < t.n /\ pt.pos >= t.p
          /\ t.n >= nl + 1)
    THEN Abort
    ELSE /\ arr' = pt.a
         /\ ok' = ok
         /\ started' = started \cup Scans(pt)
         /\ IF nl = t.kth
            THEN Return(pt.pos)
            ELSE /\ phase' = phase /\ ret' = ret
                 /\ Call(SideCall(t, pt.pos, nl, t.n - nl - 1), "tail")

\* rs3_5_2_find_kth from the return of rs3_5_2_pick_pivot on
rs3_5_2_find_kth_partition ==
    /\ Running("rs3_5_2_find_kth", "pivot")
    /\ KthPartitioned(c_partition_at([a |-> arr, pos |-> Top.got, ok |-> TRUE],
                                     Top.p, Top.n, sz),
                      Top,
                      (c_partition_at([a |-> arr, pos |-> Top.got, ok |-> TRUE],
                                      Top.p, Top.n, sz).pos - Top.p) \div sz)
    /\ round' = round + 1
    /\ UNCHANGED <<variant, api, orig, sz, first_out, args>>

\* rs3_5_2_find_kth returns what its recursive call returned
rs3_5_2_find_kth_return ==
    /\ Running("rs3_5_2_find_kth", "tail")
    /\ Return(Top.got)
    /\ round' = round + 1
    /\ UNCHANGED <<variant, api, arr, orig, sz, started, first_out, args, ok>>

\* the staging band of rs3_5_2_pick_pivot on n elements with the clamped thin
BandLen(n, thin) == n \div (15 * thin)

\* rs3_5_2_pick_pivot: the pivot is returned, or the medians are deposited in
\* the staging band and rs3_5_2_find_kth is called on it
rs3_5_2_pick_pivot_enter ==
    /\ Running("rs3_5_2_pick_pivot", "enter")
    /\ ok' = ok
    /\ started' = started \cup (c_pick_pivot_calls(Top.n, Top.thin) \ {"rs3_5_2_find_kth"})
    /\ IF Top.n < 30 * Max(Top.thin, 2) \/ Top.n < 200
       THEN /\ arr' = arr
            /\ Return(c_rs3_5_2_pick_pivot(arr, Top.p, Top.n, sz, Top.thin).pos)
       ELSE /\ arr' = c_pick_pivot_loop(arr, Top.p, Top.p + 7 * (Top.n \div 15) * sz,
                                        Top.p + (Top.n - BandLen(Top.n, Max(Top.thin, 2)) * 7) * sz,
                                        BandLen(Top.n, Max(Top.thin, 2)), 0, sz)
            /\ phase' = phase /\ ret' = ret
            /\ Call(KthCall(Top.p + 7 * (Top.n \div 15) * sz, BandLen(Top.n, Max(Top.thin, 2)),
                            2, BandLen(Top.n, Max(Top.thin, 2)) \div 2, Top.n),
                    "tail")
    /\ round' = round + 1
    /\ UNCHANGED <<variant, api, orig, sz, first_out, args>>

\* rs3_5_2_pick_pivot returns what rs3_5_2_find_kth returned
rs3_5_2_pick_pivot_return ==
    /\ Running("rs3_5_2_pick_pivot", "tail")
    /\ Return(Top.got)
    /\ round' = round + 1
    /\ UNCHANGED <<variant, api, arr, orig, sz, started, first_out, args, ok>>

NextCalls ==
    \/ quicksort_mm_quicksort_enter
    \/ quicksort_mm_quickselect_enter
    \/ quicksort_body_enter
    \/ quicksort_body_partition
    \/ quicksort_body_second
    \/ quicksort_body_return
    \/ rs3_5_2_find_kth_enter
    \/ rs3_5_2_find_kth_partition
    \/ rs3_5_2_find_kth_return
    \/ rs3_5_2_pick_pivot_enter
    \/ rs3_5_2_pick_pivot_return

\* a step of the running program
Step == phase = "running" /\ round' = round + 1

\* the program is single-threaded and runs on until it returns or is aborted
SpecCalls == InitCalls /\ [][NextCalls]_vars /\ WF_round(Step)

SpecAsserts == InitAsserts /\ [][NextCalls]_vars

(***************************************************************************)
(* The core case of the pivot selector, one loop iteration at a time.      *)
(* round is the loop variable i; stack lists, per iteration, the positions *)
(* the iteration reads (reads) and those whose content it changed (writes),*)
(* as element indexes of the range, and last the same for the call made on *)
(* the staging band.                                                       *)
(***************************************************************************)
MaxLayoutLen == 260

LayoutInputs == {Pattern(n, "mix") : n \in (200..MaxLayoutLen) \cup {630}}

InitLayout ==
    /\ arr \in LayoutInputs
    /\ InitCall
    /\ phase = "idle"
    /\ sz \in (IF variant = "c" THEN ElemSizes \ {0} ELSE {1})
    /\ args \in {[NoArgs EXCEPT !.last = Len(arr), !.thin = s] : s \in Thins}

\* BackStart with a fault seeded: the back groups start where the band starts
BackStart_on_band(n, nn) == 7 * (n \div 15)

\* q0 and r0, as element indexes: the start of the staging band and of the
\* back groups, for n elements and nn iterations
BandStart(n) == 7 * (n \div 15)
BackStart(n, nn) == n - nn * 7

\* the pointers iteration i passes to median3, in the order of the calls
c_pick_pivot_reads(p0, q0, r0, i, esz) ==
    << p0 + (i*7+0)*esz, p0 + (i*7+1)*esz, p0 + (i*7+2)*esz,
       p0 + (i*7+3)*esz, p0 + (i*7+4)*esz, p0 + (i*7+5)*esz,
       p0 + (i*7+6)*esz, q0 + (i*1+0)*esz, r0 + (i*7+0)*esz,
       r0 + (i*7+1)*esz, r0 + (i*7+2)*esz, r0 + (i*7+3)*esz,
       r0 + (i*7+4)*esz, r0 + (i*7+5)*esz, r0 + (i*7+6)*esz >>

cc_pick_pivot_reads(p, q, r, i) ==
    << p+i*7+0, p+i*7+1, p+i*7+2,
       p+i*7+3, p+i*7+4, p+i*7+5,
       p+i*7+6, q+i,     r+i*7+0,
       r+i*7+1, r+i*7+2, r+i*7+3,
       r+i*7+4, r+i*7+5, r+i*7+6 >>

hh_select_pivot_reads(p, q, r, i) ==
    << p+i*7+0, p+i*7+1, p+i*7+2,
       p+i*7+3, p+i*7+4, p+i*7+5,
       p+i*7+6, q+i,     r+i*7+0,
       r+i*7+1, r+i*7+2, r+i*7+3,
       r+i*7+4, r+i*7+5, r+i*7+6 >>

\* the element indexes at which b differs from a
Written(a, b) == {j - 1 : j \in {k \in DOMAIN a : a[k] # b[k]}}

\* an iteration (or the call on the band, with
\* loop FALSE) that read the pointers ptrs left the sequence a1
Accessed(a1, ptrs, unit, loop) ==
    /\ arr' = a1
    /\ stack' = Append(stack, [loop |-> loop, ptrs |-> Len(ptrs),
                               reads |-> {ptrs[j] \div unit : j \in DOMAIN ptrs},
                               aligned |-> \A j \in DOMAIN ptrs : ptrs[j] % unit = 0,
                               writes |-> Written(arr, a1)])

\* the selector is entered: in the core case its loop is started
pick_pivot_loop_enter ==
    /\ phase = "idle"
    /\ LET s == IF variant = "hh" THEN args.thin ELSE Max(args.thin, 2)
       IN  IF Len(arr) < 30 * s \/ Len(arr) < 200
           THEN phase' = "done" /\ started' = {"median5"}
           ELSE phase' = "loop" /\ started' = {"median3", "median5"}
    /\ api' = "pick_pivot" /\ round' = 0
    /\ UNCHANGED <<variant, arr, orig, sz, stack, first_out, args, ret, ok>>

c_pick_pivot_iteration ==
    /\ variant = "c" /\ phase = "loop"
    /\ round < BandLen(Len(arr), Max(args.thin, 2))
    /\ Accessed(c_pick_pivot_body(arr, 0, BandStart(Len(arr)) * sz,
                                  BackStart(Len(arr), BandLen(Len(arr), Max(args.thin, 2))) * sz,
                                  round, sz),
                c_pick_pivot_reads(0, BandStart(Len(arr)) * sz,
                                   BackStart(Len(arr), BandLen(Len(arr), Max(args.thin, 2))) * sz,
                                   round, sz),
                sz, TRUE)
    /\ round' = round + 1
    /\ UNCHANGED <<variant, api, phase, orig, sz, started, first_out, args, ret, ok>>

cc_pick_pivot_iteration ==
    /\ variant = "cc" /\ phase = "loop"
    /\ round < BandLen(Len(arr), Max(args.thin, 2))
    /\ Accessed(cc_pick_pivot_body(arr, 0, BandStart(Len(arr)),
                                   BackStart(Len(arr), BandLen(Len(arr), Max(args.thin, 2))),
                                   round),
                cc_pick_pivot_reads(0, BandStart(Len(arr)),
                                    BackStart(Len(arr), BandLen(Len(arr), Max(args.thin, 2))),
                                    round),
                1, TRUE)
    /\ round' = round + 1
    /\ UNCHANGED <<variant, api, phase, orig, sz, started, first_out, args, ret, ok>>

hh_select_pivot_iteration ==
    /\ variant = "hh" /\ phase = "loop"
    /\ round < BandLen(Len(arr), args.thin)
    /\ Accessed(hh_select_pivot_body(arr, 0, BandStart(Len(arr)),
                                     BackStart(Len(arr), BandLen(Len(arr), args.thin)),
                                     round),
                hh_select_pivot_reads(0, BandStart(Len(arr)),
                                      BackStart(Len(arr), BandLen(Len(arr), args.thin)),
                                      round),
                1, TRUE)
    /\ round' = round + 1
    /\ UNCHANGED <<variant, api, phase, orig, sz, started, first_out, args, ret, ok>>

\* the k-th element routine of the variant, called on the band of nn elements
\* that starts at element q
BandMedian(q, nn) ==
    CASE variant = "c"  -> c_rs3_5_2_find_kth(arr, q * sz, nn, sz, 2, nn \div 2)
      [] variant = "cc" -> cc_rs3_5_2_find_kth(arr, q, q + nn, nn \div 2, Max(args.thin, 2))
      [] variant = "hh" -> hh_rs3_5_2_select_kth(2, arr, q, q + nn, nn \div 2)

\* r, returned by the call on the band, is returned
BandReturned(r, q, nn) ==
    /\ Accessed(r.a, [j \in 1..nn |-> (q + j - 1) * sz], sz, FALSE)
    /\ ret' = r.pos

\* after the loop: the median of the band is found and returned
pick_pivot_loop_exit ==
    /\ phase = "loop"
    /\ LET nn == BandLen(Len(arr), IF variant = "hh" THEN args.thin ELSE Max(args.thin, 2))
       IN  /\ round = nn
           /\ BandReturned(BandMedian(BandStart(Len(arr)), nn), BandStart(Len(arr)), nn)
    /\ phase' = "done"
    /\ started' = started \cup {"rs3_5_2_find_kth"}
    /\ UNCHANGED <<variant, api, orig, sz, round, first_out, args, ok>>

NextLayout ==
    \/ pick_pivot_loop_enter
    \/ c_pick_pivot_iteration
    \/ cc_pick_pivot_iteration
    \/ hh_select_pivot_iteration
    \/ pick_pivot_loop_exit

SpecLayout == InitLayout /\ [][NextLayout]_vars

(***************************************************************************)
(* Properties of the sort.                                                 *)
(***************************************************************************)
Sorted(a) == \A i \in 1..(Len(a) - 1) : Key(a[i]) <= Key(a[i + 1])

\* b holds the elements of a, each once (the elements of an input are distinct)
SameElements(a, b) ==
    /\ Len(a) = Len(b)
    /\ {a[i] : i \in DOMAIN a} = {b[i] : i \in DOMAIN b}

RECURSIVE Log2(_)
Log2(n) == IF n <= 1 THEN 0 ELSE 1 + Log2(n \div 2)

RangeLen(r) == (r[2] - r[1]) \div sz

\* the frames suspended in their first recursive call
Suspended == {i \in DOMAIN stack : stack[i].at = "first"}

SortReturned == phase = "done" /\ api = "sort"
SortRefused == args.null \/ Len(orig) = 0 \/ sz = 0

\* C1: when a sort call that passed the entry guards returns, the sequence is
\* non-decreasing and is a permutation of the sequence passed, in each of the
\* three variants and on each pivot path.
C1_SortedPermutation ==
    (SortReturned /\ ~SortRefused) => (Sorted(arr) /\ SameElements(arr, orig))

\* a sort that took the median-of-medians path and moved elements has returned
C1_Witness ==
    /\ SortReturned /\ round = 1 /\ arr # orig
    /\ variant = "hh" /\ "rs3_5_2_select_kth" \in started
    /\ Sorted(arr)

\* C3 (as claimed): a sort call with a null sequence, no elements or element
\* size 0 returns with the sequence as it was and without having started the
\* thinning-parameter computation, a pivot selection, a partition or a comparison.
C3_RefusedAtEntry ==
    (SortReturned /\ SortRefused) =>
        /\ arr = orig
        /\ started \cap {"approx_sqrt", "cmp", "partition",
                         "rs3_5_2_pick_pivot", "rs3_5_2_select_pivot"} = {}

\* C4 (as claimed): sorting the sorted sequence again gives back the same
\* sequence of elements, position by position.
C4_IdempotentElements ==
    (SortReturned /\ round = 2) => arr = first_out

KeysDistinct(a) == \A i, j \in DOMAIN a : i # j => Key(a[i]) # Key(a[j])

\* C4 (amended): sorting the sorted sequence again gives back a sequence that
\* holds at each position an element equivalent to the one that was there, and
\* the very same sequence when no two elements are equivalent.
C4_IdempotentKeys ==
    (SortReturned /\ round = 2) =>
        /\ Len(arr) = Len(first_out)
        /\ \A i \in DOMAIN arr : Key(arr[i]) = Key(first_out[i])
        /\ KeysDistinct(first_out) => arr = first_out

\* the second sort has exchanged equivalent elements of a sorted sequence
C4_Witness ==
    /\ SortReturned /\ round = 2 /\ ~SortRefused
    /\ arr # first_out
    /\ \A i \in DOMAIN arr : Key(arr[i]) = Key(first_out[i])

\* C6 (as claimed): the first of the two recursive calls is made on the side
\* that has no more elements than the side of the second call.
C6_SmallerSideFirst ==
    \A i \in Suspended : RangeLen(stack[i].first) <= RangeLen(stack[i].second)

\* C7: with the tail call made as a loop iteration, the range of the first
\* recursive call has at most floor(n/2) of the caller's n elements, and for an
\* input of n >= 1 elements at most floor(log2(n)) frames are suspended in
\* their first recursive call.
C7_LogDepth ==
    /\ \A i \in Suspended :
          RangeLen(stack[i].first) <= RangeLen(<<stack[i].begin, stack[i].end>>) \div 2
    /\ Len(orig) >= 1 => Cardinality(Suspended) <= Log2(Len(orig))

\* the bound is met: floor(log2(n)) >= 4 frames are suspended at once
C7_Witness ==
    /\ Cardinality(Suspended) >= 4
    /\ Cardinality(Suspended) = Log2(Len(orig))

(***************************************************************************)
(* Properties of the selection.                                            *)
(***************************************************************************)
SelectReturned == phase = "done" /\ api = "select"
SelectRefused == args.null \/ sz = 0 \/ Len(orig) = 0 \/ Len(orig) <= args.k

\* the number of elements of a with a key below / not above the key of v
Below(a, v) == Cardinality({i \in DOMAIN a : Key(a[i]) < Key(v)})
NotAbove(a, v) == Cardinality({i \in DOMAIN a : Key(a[i]) <= Key(v)})
NotBelow(a, v) == Cardinality({i \in DOMAIN a : Key(a[i]) >= Key(v)})

\* what C2 says of the sequence a left by a select of rank k on the sequence o
SelectedAt(a, o, k) ==
    /\ SameElements(a, o)
    /\ Below(o, a[k + 1]) <= k
    /\ NotAbove(o, a[k + 1]) > k
    /\ \A i \in 1..k : Key(a[i]) <= Key(a[k + 1])
    /\ \A i \in (k + 1)..Len(a) : Key(a[i]) >= Key(a[k + 1])

\* C2: when a select call with a rank 0 <= k < n returns, position k holds the
\* k-th smallest element of the sequence passed, no element before position k
\* is greater than it and no element from position k on is less than it; the
\* sequence is a permutation of the one passed.
C2_SelectKth ==
    (SelectReturned /\ ~SelectRefused) => SelectedAt(arr, orig, args.k)

\* a select of the median of 630 elements, and one of the maximum of 5
C2_Witness ==
    /\ SelectReturned /\ ~SelectRefused
    /\ arr # orig
    /\ \/ Len(orig) = 630 /\ args.k = 315 /\ variant = "c"
       \/ Len(orig) = MaxLen /\ args.k = MaxLen - 1 /\ variant = "hh"

(***************************************************************************)
(* Properties of the partition.                                            *)
(***************************************************************************)
\* partition has returned from a call on the range [first, last) of orig
PartitionReturned ==
    phase = "done" /\ api = "partition" /\ started = {"partition", "cmp"}

\* the position returned, as an element index
RetIndex == ret \div sz

\* the elements of the range [f, l) of a
RangeOf(a, f, l) == {a[i] : i \in (f + 1)..l}

\* C5: partition of a range [first, last) with a pivot position inside it
\* returns a position p in the range; the element at p is the one that was at
\* the pivot position, no element of [first, p) is greater than it, no element
\* of [p, last) is less than it, the range holds the elements it held and the
\* elements outside it are where they were.
C5_Partition ==
    PartitionReturned =>
        /\ ret % sz = 0
        /\ args.first <= RetIndex /\ RetIndex < args.last
        /\ Len(arr) = Len(orig)
        /\ arr[RetIndex + 1] = orig[args.pivot + 1]
        /\ \A i \in (args.first + 1)..RetIndex : ~gt(arr[i], arr[RetIndex + 1])
        /\ \A i \in (RetIndex + 1)..args.last : ~lt(arr[i], arr[RetIndex + 1])
        /\ RangeOf(arr, args.first, args.last) = RangeOf(orig, args.first, args.last)
        /\ \A i \in DOMAIN orig : (i <= args.first \/ i > args.last) => arr[i] = orig[i]

\* a partition of an inner range that moved the pivot and left both sides non-empty
C5_Witness ==
    /\ PartitionReturned
    /\ 0 < args.first /\ args.last < Len(orig)
    /\ args.first < RetIndex /\ RetIndex < args.last - 1
    /\ RetIndex # args.pivot
    /\ arr # orig

\* the elements of the range [f, l) of a all compare equal
AllEqual(a, f, l) == \A i \in (f + 1)..l : Key(a[i]) = Key(a[f + 1])

\* C9: on a range of n elements that all compare equal, partition returns the
\* position floor(n/2) from the start of the range whatever the pivot passed;
\* the two sides differ by at most one element and, for n >= 3, neither is empty.
C9_TieStop ==
    (PartitionReturned /\ AllEqual(orig, args.first, args.last)) =>
        LET n == args.last - args.first
            nl == RetIndex - args.first
            nr == args.last - RetIndex - 1
        IN  /\ nl = n \div 2
            /\ nl - nr <= 1 /\ nr - nl <= 1
            /\ n >= 3 => (nl >= 1 /\ nr >= 1)

\* all-equal ranges of 4 elements with the pivot passed at the end, and of 630
C9_Witness ==
    /\ PartitionReturned /\ AllEqual(orig, args.first, args.last)
    /\ \/ args.last - args.first = 4 /\ args.pivot = args.last - 1 /\ RetIndex = args.first + 2
       \/ args.last - args.first = 630 /\ RetIndex = 315

(***************************************************************************)
(* Properties of the pivot selection.                                      *)
(***************************************************************************)
\* the thinning parameter after the clamp of the C and comparator variants
Thin == IF variant = "hh" THEN args.thin ELSE Max(args.thin, 2)
CoreCase == Len(orig) >= Max(30 * Thin, 200)
nnext == Len(orig) \div (15 * Thin)
Distinct(a) == Cardinality({Key(a[i]) : i \in DOMAIN a}) = Len(a)

\* the selector has returned / the partition with its pivot has returned
PivotReturned == api = "pick_pivot" /\ phase = "ready"
PivotPartitioned ==
    api = "partition" /\ phase = "done" /\ started \cap {"median3", "median5"} # {}

\* C8: in the core case the pivot returned has at least 6*(floor(nnext/2)+1)
\* positions of the range holding elements not greater than it and at least
\* 6*(nnext - floor(nnext/2)) holding elements not less than it; for distinct
\* elements the partition that follows leaves at least that many less one on
\* the left and on the right.
C8_PivotShare ==
    /\ (PivotReturned /\ CoreCase) =>
          /\ SameElements(arr, orig)
          /\ NotAbove(arr, arr[RetIndex + 1]) >= 6 * (nnext \div 2 + 1)
          /\ NotBelow(arr, arr[RetIndex + 1]) >= 6 * (nnext - nnext \div 2)
    /\ (PivotPartitioned /\ CoreCase /\ Distinct(orig)) =>
          /\ RetIndex >= 6 * (nnext \div 2 + 1) - 1
          /\ Len(arr) - RetIndex - 1 >= 6 * (nnext - nnext \div 2) - 1

\* the core case on distinct elements, partitioned, with the staging band
\* holding the smallest elements on entry
C8_Witness ==
    /\ PivotPartitioned /\ CoreCase /\ Distinct(orig)
    /\ nnext >= 10
    /\ Key(orig[7 * (Len(orig) \div 15) + 1]) = 0
    /\ "rs3_5_2_find_kth" \in started

(***************************************************************************)
(* Properties of the median selectors.                                     *)
(***************************************************************************)
MedianReturns == phase = "done" /\ api \in {"median3", "median5"}

\* the positions passed, as indexes of arr
Given == {args.at[j] + 1 : j \in DOMAIN args.at}

\* C10: median3 and median5 return one of the positions given; at least 2 of
\* the 3 (3 of the 5) positions hold values not greater than the value there
\* and at least 2 (3) hold values not less than it; the sequence is not written.
C10_Median ==
    MedianReturns =>
        LET m == RetIndex + 1
            half == (Len(args.at) + 1) \div 2
        IN  /\ ret % sz = 0
            /\ m \in Given
            /\ Cardinality({i \in Given : le(arr[i], arr[m])}) >= half
            /\ Cardinality({i \in Given : ge(arr[i], arr[m])}) >= half
            /\ arr = orig

\* median5 on five distinct values passed in descending order, returning a
\* position other than the middle one
C10_Witness ==
    /\ MedianReturns /\ api = "median5"
    /\ Distinct(arr)
    /\ args.at = <<4, 3, 2, 1, 0>>
    /\ RetIndex # 2

(***************************************************************************)
(* Properties of the calls of the C variant.                               *)
(***************************************************************************)
Recursive == {"quicksort_body", "rs3_5_2_find_kth"}

\* every activation was called on a range shorter than its caller's (the pivot
\* selector on its caller's range), the two sides of a partition in
\* quicksort_body hold all elements but the pivot, and no scan of a partition
\* ran on after as many pointer moves as the range has elements
ShorterRanges ==
    /\ \A i \in DOMAIN stack :
          /\ i > 1 => stack[i].from = stack[i - 1].n
          /\ (i > 1 /\ stack[i].fn \in Recursive) => stack[i].n < stack[i].from
          /\ stack[i].fn = "rs3_5_2_pick_pivot" => stack[i].n = stack[i].from
          /\ (stack[i].fn = "quicksort_body" /\ stack[i].at \in {"first", "second"}) =>
                stack[i].nl + stack[i].nr = stack[i].n - 1
    /\ "scan_overrun" \notin started

\* the positions an activation can be at
Positions ==
    ({"quicksort_body"} \X {"enter", "pivot", "first", "second"})
        \cup ({"rs3_5_2_find_kth"} \X {"enter", "pivot", "tail"})
        \cup ({"rs3_5_2_pick_pivot"} \X {"enter", "tail"})

\* the running program has a step to take: an activation is on the stack, at
\* a position of its routine, with room on the stack for the call it may make
CanStep ==
    phase = "running" =>
        /\ stack # <<>>
        /\ <<Top.fn, Top.at>> \in Positions
        /\ Len(stack) < MaxDepth

\* C11: every sort or select call of the C variant returns; on the way the
\* scans of every partition end within n pointer moves and every nested call
\* of quicksort_body and rs3_5_2_find_kth (from itself or from the pivot
\* selector, on the staging band) gets a range strictly shorter than its
\* caller's.
C11_Terminates ==
    /\ [](ShorterRanges /\ CanStep)
    /\ (phase = "running") ~> (phase = "done")

\* during a select, rs3_5_2_find_kth called by the pivot selector on the
\* staging band is itself in a recursive call
C11_Witness ==
    /\ api = "select" /\ phase = "running"
    /\ \E i \in DOMAIN stack :
          /\ i > 2
          /\ stack[i].fn = "rs3_5_2_find_kth" /\ stack[i].at = "tail"
          /\ stack[i - 1].fn = "rs3_5_2_pick_pivot"
          /\ stack[i - 2].fn = "rs3_5_2_find_kth"

(***************************************************************************)
(* Properties of the assertions of the C variant.                          *)
(***************************************************************************)
\* what the assertions state of the activations on the stack: the rank of
\* rs3_5_2_find_kth is below n, quicksort_body has begin <= end with whole
\* elements between, the pivot just returned by the selector and the position
\* partition returned are at element-aligned offsets in [0, n) of the range
AssertedOf(f, running) ==
    /\ f.fn = "rs3_5_2_find_kth" => f.kth < f.n
    /\ f.fn = "quicksort_body" => (f.p <= f.end /\ sz > 0 /\ (f.end - f.p) % sz = 0)
    /\ (running /\ f.at = "pivot") =>
          (f.p <= f.got /\ (f.got - f.p) % sz = 0 /\ (f.got - f.p) \div sz < f.n)
    /\ (f.fn = "quicksort_body" /\ f.at \in {"first", "second"}) =>
          (0 <= f.nl /\ f.nl < f.n)

\* C13: in a call of quicksort_mm_quicksort or quicksort_mm_quickselect that
\* passed the guards of the entry point no assertion fails: every activation
\* of rs3_5_2_find_kth has kth < n, every pivot returned by the selector and
\* every position returned by partition is at an element-aligned offset in
\* [0, n) of the range, and every activation of quicksort_body has
\* begin <= end with a whole number of elements between them.
C13_NoAssertFails ==
    /\ phase # "aborted"
    /\ ok
    /\ phase = "running" =>
          \A i \in DOMAIN stack : AssertedOf(stack[i], i = Len(stack))

\* C13 for the calls whose count is the number of elements p points to
C13_OnArrays == args.n = Len(arr) => C13_NoAssertFails

\* the sort was called with a count whose product with the element size does
\* not fit size_t, the guards let it pass, and the assertion of quicksort_body
\* on the distance of begin and end failed
C13_WrappedCount ==
    /\ api = "sort" /\ phase = "aborted"
    /\ args.n * sz # SizeT(args.n * sz)
    /\ Len(stack) = 1 /\ Top.fn = "quicksort_body" /\ Top.at = "enter"
    /\ Top.p <= Top.end /\ (Top.end - Top.p) % sz # 0

(***************************************************************************)
(* Properties of the index layout of the pivot selection.                  *)
(***************************************************************************)
\* the three index regions for the n elements of the range
FrontGroups == 0..(7 * nnext - 1)
StagingBand == (7 * (Len(orig) \div 15))..(7 * (Len(orig) \div 15) + nnext - 1)
BackGroups == (Len(orig) - 7 * nnext)..(Len(orig) - 1)

\* the positions of iteration i: 7 of the front groups, 1 of the band, 7 of
\* the back groups
GroupOf(i) ==
    ((7 * i)..(7 * i + 6))
        \cup {7 * (Len(orig) \div 15) + i}
        \cup ((Len(orig) - 7 * nnext + 7 * i)..(Len(orig) - 7 * nnext + 7 * i + 6))

LayoutRun == api = "pick_pivot" /\ phase \in {"loop", "done"} /\ CoreCase

\* C12: in the core case the front groups, the staging band and the back
\* groups lie inside the range and are pairwise disjoint; every loop iteration
\* reads 15 distinct positions of the range, those of its own groups, and
\* changes only positions it read; no iteration reads a position an earlier
\* iteration changed; the call on the band changes only the band; the range
\* keeps its elements.
C12_Layout ==
    LayoutRun =>
        /\ nnext >= 1
        /\ (FrontGroups \cup StagingBand \cup BackGroups) \subseteq 0..(Len(orig) - 1)
        /\ FrontGroups \cap StagingBand = {}
        /\ StagingBand \cap BackGroups = {}
        /\ FrontGroups \cap BackGroups = {}
        /\ \A j \in DOMAIN stack :
              /\ stack[j].aligned
              /\ stack[j].writes \subseteq stack[j].reads
              /\ stack[j].loop =>
                    /\ stack[j].ptrs = 15
                    /\ Cardinality(stack[j].reads) = 15
                    /\ stack[j].reads = GroupOf(j - 1)
                    /\ \A k \in 1..(j - 1) : stack[k].writes \cap stack[j].reads = {}
              /\ ~stack[j].loop => (j = nnext + 1 /\ stack[j].reads = StagingBand)
        /\ Len(stack) <= nnext + 1
        /\ SameElements(arr, orig)

\* the selector has returned after 10 or more iterations, of which the last
\* one deposited a median in the band
C12_Witness ==
    /\ LayoutRun /\ phase = "done"
    /\ nnext >= 10
    /\ Len(stack) = nnext + 1
    /\ stack[nnext].loop /\ Cardinality(stack[nnext].writes) = 2

====
